---- MODULE Spec2Model ----
(***************************************************************************)
(* nfdhcpd: the NFQUEUE-based DHCP / IPv6 RA / IPv6 NA responder of        *)
(* src/nfdhcp.py (class VMNetProxy) as a state machine.                    *)
(*                                                                         *)
(* Conventions.  A Python value that may be None is a sequence of length   *)
(* at most one: None is <<>> and the value v is <<v>>.  A MAC address text *)
(* "52:54:00:12:34:56" is the sequence of its colon-separated components,  *)
(* each component the sequence of its characters.  An IPv4 address is the  *)
(* 4-tuple of its octets, an IPv6 address the 8-tuple of its 16-bit        *)
(* groups.  A dict is a function whose DOMAIN is its key set.              *)
(***************************************************************************)
EXTENDS Integers, Sequences, FiniteSets, TLC

VARIABLES
    clients,    \* self.clients : MAC text -> Client
    subnets,    \* self.subnets : link -> Subnet (IPv4)
    ifaces,     \* self.ifaces  : ifindex -> interface name
    v6nets,     \* self.v6nets  : interface name -> Subnet (IPv6)
    pc,         \* position of serve(): "start", "select", "events", "packets",
                \* "returned" (a callback has ended), "crashed" (serve() has raised)
    eventq,     \* self.notifier._eventq : events read by read_events(), not yet processed
    rlist,      \* the ready NFQUEUE descriptors of the current iteration, in select()'s order
    last,       \* what the step just taken did to a captured packet (history)
    deleted,    \* the names whose IN_DELETE event has been processed and whose file has
                \* not been written again since (history)
    event       \* the inotify event the step just taken processed, with the store it
                \* found (history)

vars == <<clients, subnets, ifaces, v6nets, pc, eventq, rlist, last, deleted, event>>

-----------------------------------------------------------------------------
(* Python None and dict helpers *)

None == <<>>
Some(v) == <<v>>
Val(o) == o[1]

EmptyDict == <<>>
DictSet(d, k, v) == [x \in (DOMAIN d) \cup {k} |-> IF x = k THEN v ELSE d[x]]
DictDel(d, k) == [x \in (DOMAIN d) \ {k} |-> d[x]]

-----------------------------------------------------------------------------
(* Module constants *)

DHCP_DUMMY_SERVER_IP == <<1, 2, 3, 4>>
DEFAULT_LEASE_TIME == 604800
DEFAULT_RENEWAL_TIME == 600

DHCPDISCOVER == 1
DHCPOFFER == 2
DHCPREQUEST == 3
DHCPDECLINE == 4
DHCPACK == 5
DHCPNAK == 6
DHCPRELEASE == 7
DHCPINFORM == 8

DHCP_REQRESP ==
    (DHCPDISCOVER :> DHCPOFFER) @@ (DHCPREQUEST :> DHCPACK) @@ (DHCPINFORM :> DHCPACK)

NAME_SERVER_1 == <<194, 177, 210, 10>>
NAME_SERVER_2 == <<194, 177, 210, 211>>
RA_ROUTER_LIFETIME == 14400

NF_DROP == "NF_DROP"
NF_ACCEPT == "NF_ACCEPT"

-----------------------------------------------------------------------------
(* Bounds of the explored inputs *)

MaxEvents == 1      \* inotify events returned by one read_events()
MaxRoutes == 3      \* lines of a routing table handed to parse_routing_table on its own

-----------------------------------------------------------------------------
(* Hexadecimal text *)

HexDigits == <<"0", "1", "2", "3", "4", "5", "6", "7",
               "8", "9", "a", "b", "c", "d", "e", "f">>

\* int(s, 16) of one character (upper or lower case)
HexDigitValue(ch) ==
    IF \E i \in 1..16 : HexDigits[i] = ch
    THEN (CHOOSE i \in 1..16 : HexDigits[i] = ch) - 1
    ELSE CASE ch = "A" -> 10 [] ch = "B" -> 11 [] ch = "C" -> 12
           [] ch = "D" -> 13 [] ch = "E" -> 14 [] ch = "F" -> 15

\* "%02x" % b, and one byte of str.encode("hex")
Hex2(b) == <<HexDigits[(b \div 16) + 1], HexDigits[(b % 16) + 1]>>

\* int(s, 16) of a two-character component
Int16(s) == 16 * HexDigitValue(s[1]) + HexDigitValue(s[2])

\* int(s, 16) of a text of any length, as IPy reads one group of an IPv6 address
RECURSIVE IntHex(_)
IntHex(s) ==
    IF s = << >> THEN 0
    ELSE 16 * IntHex(SubSeq(s, 1, Len(s) - 1)) + HexDigitValue(s[Len(s)])

\* setting bit 0x02 of the octet instead of inverting it
Xor2_SetBit(x) == IF (x \div 2) % 2 = 0 THEN x + 2 ELSE x

\* x ^ 0x02 on one octet
Xor2(x) == IF (x \div 2) % 2 = 0 THEN x + 2 ELSE x - 2

-----------------------------------------------------------------------------
(* The host: interfaces, sysfs, routing tables *)

HostIfaces == {"tap0", "tap1"}

\* <sysfs>/<iface>/ifindex of the interfaces the host can have
SysIfindex == [i \in HostIfaces |-> IF i = "tap0" THEN 5 ELSE 6]

\* an input-device index that belongs to no interface with a binding file
ForeignIfindex == SysIfindex["tap1"] + 3

\* <sysfs>/<iface>/address
SysAddress ==
    [i \in HostIfaces |->
        IF i = "tap0"
        THEN << <<"a","a">>, <<"b","b">>, <<"c","c">>, <<"d","d">>, <<"e","e">>, <<"f","f">> >>
        ELSE << <<"a","a">>, <<"b","b">>, <<"c","c">>, <<"d","d">>, <<"e","e">>, <<"0","1">> >>]

\* The states of sysfs: the set of interfaces that exist on the host.
SysfsStates == SUBSET HostIfaces

\* get_ifindex: the integer read from <sysfs>/<iface>/ifindex, None on any failure
get_ifindex(sysfs, iface) ==
    IF iface \in sysfs THEN Some(SysIfindex[iface]) ELSE None

\* get_iface_hw_addr: the line read from <sysfs>/<iface>/address, None on any failure
get_iface_hw_addr(sysfs, iface) ==
    IF iface \in sysfs THEN Some(SysAddress[iface]) ELSE None

\* One line of `ip ro ls`: its first token, its "via" and its "dev" (None when absent).
RouteLine(dst, via, dev) == [dst |-> dst, via |-> via, dev |-> dev]

\* stdout of `ip -<family> ro ls table <table>` on the host
HostRoutes(table, family) ==
    IF table = "br0" /\ family = 4 THEN
        << RouteLine("default", Some(<<10, 0, 0, 1>>), Some("eth0")),
           RouteLine("10.0.0.0/24", None, Some("eth0")) >>
    ELSE IF table = "br0" /\ family = 6 THEN
        << RouteLine("default", Some(<<65152, 0, 0, 0, 0, 0, 0, 1>>), Some("eth0")),
           RouteLine("2001:db8::/64", None, Some("eth0")) >>
    ELSE << >>

\* IPy.IP(text): the parsed network, None when IPy raises ValueError
IPyIP(text) ==
    CASE text = "10.0.0.0/24" ->
            Some([ip |-> <<10, 0, 0, 0>>, prefixlen |-> 24])
      [] text = "10.0.0.0/16" ->
            Some([ip |-> <<10, 0, 0, 0>>, prefixlen |-> 16])
      [] text = "10.0.1.0/24" ->
            Some([ip |-> <<10, 0, 1, 0>>, prefixlen |-> 24])
      [] text = "192.168.0.0/24" ->
            Some([ip |-> <<192, 168, 0, 0>>, prefixlen |-> 24])
      [] text = "2001:db8::/64" ->
            Some([ip |-> <<8193, 3512, 0, 0, 0, 0, 0, 0>>, prefixlen |-> 64])
      [] OTHER -> None

\* s.startswith(p) on device names
StartsWith(s, p) == s = p \/ <<p, s>> \in {<<"eth0", "eth01">>, <<"eth0", "eth0.5">>}

-----------------------------------------------------------------------------
(* class Subnet *)

Subnet(net, gw, dev) == [net |-> net, gw |-> gw, dev |-> dev]

\* IPy netmask() / broadcast() of an IPv4 network whose prefix length is a multiple of 8
netmask(subnet) ==
    [i \in 1..4 |-> IF i <= Val(subnet.net).prefixlen \div 8 THEN 255 ELSE 0]
broadcast(subnet) ==
    [i \in 1..4 |-> IF i <= Val(subnet.net).prefixlen \div 8
                    THEN Val(subnet.net).ip[i] ELSE 255]
prefix(subnet) == Val(subnet.net).ip
prefixlen(subnet) == Val(subnet.net).prefixlen

\* IPy overlaps(): the address lies in the network (prefix length a multiple of 16)
overlaps(net, addr) ==
    \A i \in 1..(net.prefixlen \div 16) : addr[i] = net.ip[i]

\* Subnet._make_eui64(net, mac): net given as its first four groups
make_eui64(net4, mac) ==
    LET comp == mac
        eui0 == SubSeq(comp, 1, 3) \o << <<"f","f">>, <<"f","e">> >> \o SubSeq(comp, 4, Len(comp))
        eui64 == [eui0 EXCEPT ![1] = Hex2(Xor2(Int16(eui0[1])))]
        groups == [g \in 1..(Len(eui64) \div 2) |->
                      IntHex(eui64[2 * g - 1] \o eui64[2 * g])]
    IN  net4 \o groups

make_ll64(mac) == make_eui64(<<65152, 0, 0, 0>>, mac)

-----------------------------------------------------------------------------
(* class Client and the binding files *)

Client(mac, ips, link, hostname) ==
    [mac |-> mac, ips |-> ips, hostname |-> hostname, link |-> link, iface |-> None]

\* Client.ip: self.ips[0]; evaluating it raises IndexError when the list is empty
ip(c) == Val(c.ips)[1]
HasIp(c) == Val(c.ips) # <<>>

is_valid(c) == c.mac # None /\ c.ips # None /\ c.hostname # None

MAC1 == << <<"5","2">>, <<"5","4">>, <<"0","0">>, <<"1","2">>, <<"3","4">>, <<"5","6">> >>
MAC2 == << <<"5","2">>, <<"5","4">>, <<"0","0">>, <<"1","2">>, <<"3","4">>, <<"5","7">> >>
IP1 == <<10, 0, 0, 7>>
IP2 == <<10, 0, 0, 8>>
IP3 == <<10, 0, 0, 9>>

Line(key, val) == [key |-> key, val |-> val]

\* The contents a binding file can have; an IP value is given as its whitespace-separated
\* tokens, a host name as its dot-separated labels.
FileVm7 == << Line("MAC", MAC1), Line("IP", <<IP1>>), Line("LINK", "br0"),
              Line("HOSTNAME", <<"vm7", "example", "org">>) >>
FileVm8 == << Line("HOSTNAME", <<"vm8">>), Line("OTHER", "x"), Line("LINK", "br0"),
              Line("IP", <<IP2, IP3>>), Line("MAC", MAC2) >>
FileVm7Br1 == << Line("MAC", MAC1), Line("IP", <<IP1>>), Line("LINK", "br1"),
                 Line("HOSTNAME", <<"vm7", "example", "org">>) >>
FileEmptyIp == << Line("MAC", MAC2), Line("IP", << >>), Line("LINK", "br0"),
                  Line("HOSTNAME", <<"vm9">>) >>
FileNoIp == << Line("MAC", MAC1), Line("LINK", "br0"), Line("HOSTNAME", <<"vm7">>) >>
FileNoMac == << Line("IP", <<IP1>>), Line("LINK", "br0"), Line("HOSTNAME", <<"vm7">>) >>
FileNoHostname == << Line("MAC", MAC1), Line("IP", <<IP1>>), Line("LINK", "br0") >>
FileNoLink == << Line("MAC", MAC1), Line("IP", <<IP1>>), Line("HOSTNAME", <<"vm7">>) >>

\* What open(path) finds: a readable file with these lines, or nothing it can open.
Readable(lines) == [readable |-> TRUE, lines |-> lines]
Unreadable == [readable |-> FALSE, lines |-> << >>]

BindingFiles ==
    { Readable(l) : l \in {FileVm7, FileVm8, FileVm7Br1, FileEmptyIp, FileNoIp, FileNoMac,
                           FileNoHostname, FileNoLink} } \cup {Unreadable}

\* the loop of parse_binding_file over the lines of the file
RECURSIVE parse_lines(_, _)
parse_lines(lines, c) ==
    IF lines = << >> THEN c
    ELSE LET line == Head(lines)
             c2 == IF line.key = "IP" THEN [c EXCEPT !.ips = Some(line.val)]
                   ELSE IF line.key = "MAC" THEN [c EXCEPT !.mac = Some(line.val)]
                   ELSE IF line.key = "LINK" THEN [c EXCEPT !.link = Some(line.val)]
                   ELSE IF line.key = "HOSTNAME" THEN [c EXCEPT !.hostname = Some(line.val)]
                   ELSE c
         IN  parse_lines(Tail(lines), c2)

\* parse_binding_file of a file that opens; one that does not open gives the 4-tuple
\* (None, None, None, None), which is no Client (see add_iface)
parse_binding_file(file) == parse_lines(file.lines, Client(None, None, None, None))

-----------------------------------------------------------------------------
(* Exceptions: the name of the exception a call raised, NoExc when it returned *)

NoExc == ""

-----------------------------------------------------------------------------
(* VMNetProxy.parse_routing_table *)

\* re.match(r'^default.*via ([^\s]+).*dev ([^\s]+)', route)
IsDefaultLine(route) == route.dst = "default" /\ route.via # None /\ route.dev # None

\* re.match("^([^\\s]+) dev %s" % def_dev, route): the first token is directly followed
\* by " dev " and a device name that starts with the text of def_dev ("None" for None)
IsConnectedLine(route, def_dev) ==
    /\ route.via = None
    /\ route.dev # None
    /\ StartsWith(Val(route.dev), IF def_dev = None THEN "None" ELSE Val(def_dev))

NoNet == [kind |-> "None", text |-> "", net |-> None]

\* the second loop: def_net after the routes; a token IPy rejects stays in def_net as text
RECURSIVE connected_route(_, _, _)
connected_route(routes, def_dev, def_net) ==
    IF routes = << >> THEN def_net
    ELSE LET route == Head(routes)
             new == IF ~IsConnectedLine(route, def_dev) THEN def_net
                    ELSE IF IPyIP(route.dst) = None
                         THEN [kind |-> "str", text |-> route.dst, net |-> None]
                         ELSE [kind |-> "IP", text |-> route.dst, net |-> IPyIP(route.dst)]
         IN  connected_route(Tail(routes), def_dev, new)

\* lines 248-267: the two loops over the lines `ip ro ls` printed, and the Subnet built
\* from what they found.  The result is [exc, subnet].
parse_routes(routes) ==
    LET defs == {i \in 1..Len(routes) : IsDefaultLine(routes[i])}
        first == CHOOSE i \in defs : \A j \in defs : i <= j
        def_gw == IF defs = {} THEN None ELSE routes[first].via
        def_dev == IF defs = {} THEN None ELSE routes[first].dev
        def_net == connected_route(routes, def_dev, NoNet)
    IN  IF def_net.kind = "str"
        THEN [exc |-> "ValueError", subnet |-> Subnet(None, def_gw, def_dev)]
        ELSE [exc |-> NoExc, subnet |-> Subnet(def_net.net, def_gw, def_dev)]

\* table is binding.link (None when the file has no LINK line: Popen then raises
\* TypeError).  The result is [exc, subnet].
parse_routing_table(table, family) ==
    IF table = None
    THEN [exc |-> "TypeError", subnet |-> Subnet(None, None, None)]
    ELSE parse_routes(HostRoutes(Val(table), family))

-----------------------------------------------------------------------------
(* The binding store and its two mutators.  A store is the record of the four  *)
(* dicts plus exc, the exception that ended the call (NoExc when it returned). *)

Store(c, s, i, v) == [clients |-> c, subnets |-> s, ifaces |-> i, v6nets |-> v, exc |-> NoExc]

\* line 305: the guard of the "stale configuration" branch
IsStale(ifindex) == ifindex = None

\* the stale branch evicting the Clients of the interface instead of only warning
warn_stale_Evict(st, iface) ==
    [st EXCEPT !.clients =
        [mac \in {m \in DOMAIN st.clients : st.clients[m].iface # Some(iface)} |->
            st.clients[mac]]]

\* lines 304-305: the stale branch logs a warning and leaves the store as it is
warn_stale(st, iface) == st

\* VMNetProxy.add_iface(path), iface = basename(path), file = what open(path) finds
add_iface(st, iface, file, sysfs) ==
    LET ifindex == get_ifindex(sysfs, iface)
    IN  IF IsStale(ifindex) THEN warn_stale(st, iface)
        ELSE IF ~file.readable
        THEN [st EXCEPT !.exc = "AttributeError"]      \* the 4-tuple has no is_valid
        ELSE
        LET binding == parse_binding_file(file)
        IN  IF ~is_valid(binding) THEN st
            ELSE
            LET b == [binding EXCEPT !.iface = Some(iface)]
                st1 == [st EXCEPT !.clients = DictSet(@, Val(b.mac), b)]
                r4 == parse_routing_table(b.link, 4)
                st2 == [st1 EXCEPT !.subnets = DictSet(@, Val(b.link), r4.subnet),
                                   !.ifaces = DictSet(@, Val(ifindex), iface)]
                r6 == parse_routing_table(b.link, 6)
            IN  IF r4.exc # NoExc THEN [st1 EXCEPT !.exc = r4.exc]
                ELSE IF r6.exc # NoExc THEN [st2 EXCEPT !.exc = r6.exc]
                ELSE [st2 EXCEPT !.v6nets = DictSet(@, iface, r6.subnet)]

\* VMNetProxy.remove_iface(iface); "del self.v6nets.iface" is an attribute deletion
\* on a dict and raises AttributeError
remove_iface(st, iface) ==
    IF iface \in DOMAIN st.v6nets
    THEN [st EXCEPT !.exc = "AttributeError"]
    ELSE LET keepc == {mac \in DOMAIN st.clients : st.clients[mac].iface # Some(iface)}
             keepi == {ifindex \in DOMAIN st.ifaces : st.ifaces[ifindex] # iface}
         IN  [st EXCEPT !.clients = [mac \in keepc |-> st.clients[mac]],
                        !.ifaces = [ifindex \in keepi |-> st.ifaces[ifindex]]]

\* build_config: clear clients and subnets, then add_iface each globbed file in
\* glob order, up to the first exception
RECURSIVE add_ifaces(_, _, _)
add_ifaces(st, files, sysfs) ==
    IF files = << >> \/ st.exc # NoExc THEN st
    ELSE add_ifaces(add_iface(st, Head(files).name, Head(files).file, sysfs),
                    Tail(files), sysfs)

build_config(st, files, sysfs) ==
    add_ifaces([st EXCEPT !.clients = EmptyDict, !.subnets = EmptyDict], files, sysfs)

-----------------------------------------------------------------------------
(* The responders.  A call is summarised by the verdicts it issued on the payload, *)
(* the frames it passed to sendp, the exception that ended it, if any, and the     *)
(* order of its calls: in each responder set_verdict (lines 346, 450, 474, 477)    *)
(* comes ahead of sendp (lines 437, 458, 485).                                     *)

\* the calls in the order of a responder that sends its frame before the verdict
Outcome_SendFirst(verdicts, sent, exc) ==
    [verdicts |-> verdicts, sent |-> sent, exc |-> exc,
     effects |-> [i \in 1..Len(sent) |-> "sendp"]
                 \o [i \in 1..Len(verdicts) |-> "set_verdict"]]

Outcome(verdicts, sent, exc) ==
    [verdicts |-> verdicts, sent |-> sent, exc |-> exc,
     effects |-> [i \in 1..Len(verdicts) |-> "set_verdict"]
                 \o [i \in 1..Len(sent) |-> "sendp"]]

\* lines 349-352: resp.chaddr[:hlen].encode("hex"), a colon after each of the first
\* hlen-1 octets
MacText(chaddr, hlen) == [i \in 1..hlen |-> Hex2(chaddr[i])]

\* lines 382-386: the scan of the DHCP options; an option is a tuple (name, value) or a
\* bare name such as "end", here the 1-tuple of the name.  req_type stays unbound (None)
\* without a message-type option.
RECURSIVE scan_options(_, _)
scan_options(options, acc) ==
    IF options = << >> THEN acc
    ELSE LET opt == Head(options)
             a1 == IF Len(opt) = 2 /\ opt[1] = "message-type"
                   THEN [acc EXCEPT !.req_type = Some(opt[2])] ELSE acc
             a2 == IF Len(opt) = 2 /\ opt[1] = "requested_addr"
                   THEN [a1 EXCEPT !.requested_addr = opt[2]] ELSE a1
         IN  scan_options(Tail(options), a2)

\* line 364: the anti-spoof test
IsSpoofed(iface, binding) == Some(iface) # binding.iface

\* the NAK test comparing against every address of the binding instead of the first
IsNak_AnyAddress(req_type, requested_addr, binding) ==
    req_type = DHCPREQUEST
    /\ \A i \in 1..Len(Val(binding.ips)) : requested_addr # Val(binding.ips)[i]

\* line 391: the NAK test
IsNak(req_type, requested_addr, binding) ==
    req_type = DHCPREQUEST /\ requested_addr # ip(binding)

\* the offer taking the last address of the binding instead of the first
OfferedAddr_Last(st, mac) == Val(st.clients[mac].ips)[Len(Val(st.clients[mac].ips))]

\* line 399: the address offered
OfferedAddr(st, mac) == ip(st.clients[mac])

\* hostname.split('.', 1)[-1] on the labels of the host name
DomainOf(hostname) == IF Len(hostname) > 1 THEN Tail(hostname) ELSE hostname

\* lines 400-410: the option block of OFFER and of the ACK to a REQUEST
LeaseOptions(binding, subnet) ==
    << <<"hostname", Val(binding.hostname)>>,
       <<"domain", DomainOf(Val(binding.hostname))>>,
       <<"router", subnet.gw>>,
       <<"name_server", NAME_SERVER_1>>,
       <<"name_server", NAME_SERVER_2>>,
       <<"broadcast_address", broadcast(subnet)>>,
       <<"subnet_mask", netmask(subnet)>>,
       <<"renewal_time", DEFAULT_RENEWAL_TIME>>,
       <<"lease_time", DEFAULT_LEASE_TIME>> >>

\* lines 414-419: the option block of the ACK to an INFORM
InformOptions(binding) ==
    << <<"hostname", Val(binding.hostname)>>,
       <<"domain", DomainOf(Val(binding.hostname))>>,
       <<"name_server", NAME_SERVER_1>>,
       <<"name_server", NAME_SERVER_2>> >>

\* the final options with the end marker ahead of the server identifier
FinalOptions_EndFirst(resp_type) ==
    << <<"message-type", resp_type>>, <<"end">>, <<"server_id", DHCP_DUMMY_SERVER_IP>> >>

\* lines 428-432: what every reply's option list ends with
FinalOptions(resp_type) ==
    << <<"message-type", resp_type>>, <<"server_id", DHCP_DUMMY_SERVER_IP>>, <<"end">> >>

\* lines 370-372 and 433: the reply frame around the copied BOOTP layer
DhcpFrame(iface, mac, ifmac, binding, pkt, yiaddr, options) ==
    [iface |-> iface,
     ether |-> [dst |-> mac, src |-> ifmac],
     l3 |-> [src |-> DHCP_DUMMY_SERVER_IP, dst |-> ip(binding)],
     udp |-> [sport |-> pkt.dport, dport |-> pkt.sport],
     bootp |-> [op |-> "BOOTREPLY", yiaddr |-> yiaddr, chaddr |-> pkt.chaddr,
                hlen |-> pkt.hlen],
     options |-> options]

\* VMNetProxy.dhcp_response(i, payload): indev is payload.get_indev(), pkt the decoded
\* payload.get_data()
dhcp_response(st, indev, pkt, sysfs) ==
    IF indev \notin DOMAIN st.ifaces THEN Outcome(<< >>, << >>, "KeyError")
    ELSE
    LET iface == st.ifaces[indev]
        v == <<NF_DROP>>
        mac == MacText(pkt.chaddr, pkt.hlen)
    IN  IF ~pkt.bootp THEN Outcome(v, << >>, "AttributeError")
        ELSE IF mac \notin DOMAIN st.clients THEN Outcome(v, << >>, NoExc)
        ELSE
        LET binding == st.clients[mac]
        IN  IF IsSpoofed(iface, binding) THEN Outcome(v, << >>, NoExc)
            ELSE IF ~HasIp(binding) THEN Outcome(v, << >>, "IndexError")
            ELSE IF binding.link = None \/ Val(binding.link) \notin DOMAIN st.subnets
                 THEN Outcome(v, << >>, "KeyError")
            ELSE IF ~pkt.dhcp THEN Outcome(v, << >>, NoExc)
            ELSE
            LET ifmac == get_iface_hw_addr(sysfs, iface)
                subnet == st.subnets[Val(binding.link)]
                scan == scan_options(pkt.options,
                            [req_type |-> None, requested_addr |-> ip(binding)])
                req_type == Val(scan.req_type)
                requested_addr == scan.requested_addr
                Reply(resp_type, yiaddr, opts) ==
                    Outcome(v, << DhcpFrame(iface, mac, ifmac, binding, pkt, yiaddr,
                                            opts \o FinalOptions(resp_type)) >>, NoExc)
            IN  IF scan.req_type = None THEN Outcome(v, << >>, "UnboundLocalError")
                ELSE IF IsNak(req_type, requested_addr, binding)
                     THEN Reply(DHCPNAK, pkt.yiaddr, << >>)
                ELSE IF req_type \in {DHCPDISCOVER, DHCPREQUEST}
                     THEN IF subnet.net = None
                          THEN Outcome(v, << >>, "AttributeError")
                          ELSE Reply(DHCP_REQRESP[req_type], OfferedAddr(st, mac),
                                     LeaseOptions(binding, subnet))
                ELSE IF req_type = DHCPINFORM
                     THEN Reply(DHCP_REQRESP[req_type], pkt.yiaddr, InformOptions(binding))
                ELSE IF req_type = DHCPRELEASE THEN Outcome(v, << >>, NoExc)
                ELSE Outcome(v, << >>, "UnboundLocalError")

\* VMNetProxy.rs_response(i, payload)
rs_response(st, indev, sysfs) ==
    IF indev \notin DOMAIN st.ifaces THEN Outcome(<< >>, << >>, "KeyError")
    ELSE
    LET iface == st.ifaces[indev]
        ifmac == get_iface_hw_addr(sysfs, iface)
    IN  IF iface \notin DOMAIN st.v6nets THEN Outcome(<< >>, << >>, "KeyError")
        ELSE IF ifmac = None THEN Outcome(<< >>, << >>, "AttributeError")
        ELSE
        LET subnet == st.v6nets[iface]
            ifll == make_ll64(Val(ifmac))
            v == <<NF_DROP>>
        IN  IF subnet.net = None THEN Outcome(v, << >>, "AttributeError")
            ELSE Outcome(v,
                    << [iface |-> iface,
                        ether |-> [src |-> ifmac],
                        l3 |-> [src |-> ifll],
                        ra |-> [routerlifetime |-> RA_ROUTER_LIFETIME],
                        prefixinfo |-> << [prefix |-> prefix(subnet),
                                           prefixlen |-> prefixlen(subnet)] >>] >>,
                    NoExc)

\* line 472: the NS is answered
IsRoutable(subnet, tgt, ifll) == overlaps(Val(subnet.net), tgt) \/ tgt = ifll

\* VMNetProxy.ns_response(i, payload); ns.lladdr is None when the solicitation carries
\* no source link-layer address option (reading it then raises AttributeError)
ns_response(st, indev, ns, sysfs) ==
    IF indev \notin DOMAIN st.ifaces THEN Outcome(<< >>, << >>, "KeyError")
    ELSE
    LET iface == st.ifaces[indev]
        ifmac == get_iface_hw_addr(sysfs, iface)
    IN  IF iface \notin DOMAIN st.v6nets THEN Outcome(<< >>, << >>, "KeyError")
        ELSE IF ifmac = None THEN Outcome(<< >>, << >>, "AttributeError")
        ELSE
        LET subnet == st.v6nets[iface]
            ifll == make_ll64(Val(ifmac))
        IN  IF subnet.net = None THEN Outcome(<< >>, << >>, "AttributeError")
            ELSE IF ~IsRoutable(subnet, ns.tgt, ifll)
                 THEN Outcome(<<NF_ACCEPT>>, << >>, NoExc)
            ELSE IF ns.lladdr = None THEN Outcome(<<NF_DROP>>, << >>, "AttributeError")
            ELSE Outcome(<<NF_DROP>>,
                    << [iface |-> iface,
                        ether |-> [src |-> Val(ifmac), dst |-> Val(ns.lladdr)],
                        l3 |-> [src |-> ifll, dst |-> ns.src],
                        na |-> [R |-> 1, O |-> 0, S |-> 1, tgt |-> ns.tgt],
                        dstlladdr |-> Val(ifmac)] >>,
                    NoExc)

-----------------------------------------------------------------------------
(* The inputs the environment supplies *)

SeqsUpTo(S, n) == UNION {[1..k -> S] : k \in 0..n}

\* glob.glob(data_path/*): some of the files, in some order, each name once
GlobResults ==
    {fs \in SeqsUpTo([name : HostIfaces, file : BindingFiles], Cardinality(HostIfaces)) :
        \A i, j \in 1..Len(fs) : fs[i].name = fs[j].name => i = j}

\* the inotify events one read_events() call queues
Events == [mask : {"IN_DELETE", "IN_CLOSE_WRITE"}, name : HostIfaces]
EventBatches == SeqsUpTo(Events, MaxEvents)

\* the NFQUEUE descriptors select() reports ready, named by their callbacks
Queues == {"dhcp_response", "rs_response", "ns_response"}
ReadyLists ==
    {rl \in SeqsUpTo(Queues, Cardinality(Queues)) :
        \A i, j \in 1..Len(rl) : rl[i] = rl[j] => i = j}

\* sysfs as one call of add_iface or of a responder reads it: the files of the one
\* interface are there or not
HandlerSysfs == {{}, HostIfaces}

Indevs == {SysIfindex[i] : i \in HostIfaces} \cup {ForeignIfindex}

\* chaddr: the octets of a MAC followed by padding
Chaddr(mac) == [i \in 1..Len(mac) |-> Int16(mac[i])] \o <<0>>
MAC3 == << <<"5","2">>, <<"5","4">>, <<"0","0">>, <<"1","2">>, <<"3","4">>, <<"5","8">> >>

MessageType(t) == <<"message-type", t>>
RequestedAddr(a) == <<"requested_addr", a>>
End == <<"end">>

RequestOptions ==
    { << >>,
      << MessageType(DHCPDISCOVER), End >>,
      << MessageType(DHCPREQUEST), End >>,
      << MessageType(DHCPREQUEST), RequestedAddr(IP1), End >>,
      << RequestedAddr(IP2), MessageType(DHCPREQUEST), End >>,
      << MessageType(DHCPREQUEST), RequestedAddr(IP3), End >>,
      << MessageType(DHCPINFORM), End >>,
      << MessageType(DHCPRELEASE), End >>,
      << MessageType(DHCPDECLINE), End >> }

DhcpPacket(bootp, mac, dhcp, options) ==
    [bootp |-> bootp, chaddr |-> Chaddr(mac), hlen |-> Len(mac), yiaddr |-> <<0, 0, 0, 0>>,
     sport |-> 68, dport |-> 67, dhcp |-> dhcp, options |-> options]

\* the requests of a MAC no binding file names end at the client lookup, ahead of the
\* option scan: two of them stand for all
DhcpPackets ==
    {DhcpPacket(TRUE, m, TRUE, o) : m \in {MAC1, MAC2}, o \in RequestOptions}
    \cup {DhcpPacket(TRUE, MAC3, TRUE, o) :
              o \in { << MessageType(DHCPDISCOVER), End >>,
                      << MessageType(DHCPREQUEST), RequestedAddr(IP1), End >> }}
    \cup {DhcpPacket(TRUE, m, FALSE, << >>) : m \in {MAC1, MAC2}}
    \cup {DhcpPacket(FALSE, MAC1, FALSE, << >>)}

\* Neighbor solicitations: target, source, source link-layer address option
NsTargets ==
    { <<8193, 3512, 0, 0, 0, 0, 0, 1>>,               \* 2001:db8::1
      <<8193, 3513, 0, 0, 0, 0, 0, 1>>,               \* 2001:db9::1
      make_ll64(SysAddress["tap0"]) }
NsPackets ==
    [tgt : NsTargets, src : {<<65152, 0, 0, 0, 0, 0, 0, 1>>},
     lladdr : {None, Some(MAC1)}]

-----------------------------------------------------------------------------
(* The state machine *)

NoPacket ==
    [handler |-> "", indev |-> 0, pkt |-> << >>, verdicts |-> << >>, sent |-> << >>,
     exc |-> NoExc, effects |-> << >>]

Handled(handler, indev, pkt, out) ==
    [handler |-> handler, indev |-> indev, pkt |-> pkt, verdicts |-> out.verdicts,
     sent |-> out.sent, exc |-> out.exc, effects |-> out.effects]

StoreNow == Store(clients, subnets, ifaces, v6nets)

NoEvent ==
    [mask |-> "", name |-> "", stale |-> FALSE,
     before |-> Store(EmptyDict, EmptyDict, EmptyDict, EmptyDict)]

\* the event handed to ClientFileHandler, the store it found, and whether get_ifindex
\* of its name returned None
Processed(ev, stale) ==
    [mask |-> ev.mask, name |-> ev.name, stale |-> stale, before |-> StoreNow]

SetStore(st) ==
    /\ clients' = st.clients
    /\ subnets' = st.subnets
    /\ ifaces' = st.ifaces
    /\ v6nets' = st.v6nets

Init ==
    /\ clients = EmptyDict
    /\ subnets = EmptyDict
    /\ ifaces = EmptyDict
    /\ v6nets = EmptyDict
    /\ pc = "start"
    /\ eventq = << >>
    /\ rlist = << >>
    /\ last = NoPacket
    /\ deleted = {}
    /\ event = NoEvent

\* serve(), line 492: the initial scan.  An exception leaves serve().
BuildConfig ==
    /\ pc = "start"
    /\ \E files \in GlobResults, sysfs \in SysfsStates :
          LET st == build_config(StoreNow, files, sysfs)
          IN  /\ SetStore(st)
              /\ pc' = IF st.exc # NoExc THEN "crashed" ELSE "select"
    /\ last' = NoPacket
    /\ event' = NoEvent
    /\ UNCHANGED <<eventq, rlist, deleted>>

\* select() returning with the ready queues served ahead of the watcher
Select_PacketsFirst ==
    /\ pc = "select"
    /\ \E evs \in EventBatches, rl \in ReadyLists :
          /\ eventq' = evs
          /\ rlist' = rl
          /\ pc' = IF rl # << >> THEN "packets"
                   ELSE IF evs # << >> THEN "events" ELSE "select"
    /\ last' = NoPacket
    /\ event' = NoEvent
    /\ UNCHANGED <<clients, subnets, ifaces, v6nets, deleted>>

\* serve(), lines 497-501: select() returns, and read_events() queues the pending
\* inotify events when the watcher is ready.  Nothing ready is the 1 s timeout.
Select ==
    /\ pc = "select"
    /\ \E evs \in EventBatches, rl \in ReadyLists :
          /\ eventq' = evs
          /\ rlist' = rl
          /\ pc' = IF evs # << >> THEN "events"
                   ELSE IF rl # << >> THEN "packets" ELSE "select"
    /\ last' = NoPacket
    /\ event' = NoEvent
    /\ UNCHANGED <<clients, subnets, ifaces, v6nets, deleted>>

\* where serve() goes once process_events() has emptied the queue
AfterEvents(q) == IF q # << >> THEN "events" ELSE IF rlist # << >> THEN "packets" ELSE "select"

\* process_events(): one IN_DELETE event, ClientFileHandler.process_IN_DELETE.
\* pyinotify lets the handler's exception through, which leaves serve().
ProcessDelete ==
    /\ pc = "events"
    /\ eventq # << >>
    /\ Head(eventq).mask = "IN_DELETE"
    /\ LET st == remove_iface(StoreNow, Head(eventq).name)
       IN  /\ SetStore(st)
           /\ pc' = IF st.exc # NoExc THEN "crashed" ELSE AfterEvents(Tail(eventq))
    /\ eventq' = Tail(eventq)
    /\ deleted' = deleted \cup {Head(eventq).name}
    /\ event' = Processed(Head(eventq), FALSE)
    /\ last' = NoPacket
    /\ UNCHANGED rlist

\* process_events(): one IN_CLOSE_WRITE event, ClientFileHandler.process_IN_CLOSE_WRITE
ProcessCloseWrite ==
    /\ pc = "events"
    /\ eventq # << >>
    /\ Head(eventq).mask = "IN_CLOSE_WRITE"
    /\ \E file \in BindingFiles, sysfs \in HandlerSysfs :
          LET st == add_iface(StoreNow, Head(eventq).name, file, sysfs)
          IN  /\ SetStore(st)
              /\ pc' = IF st.exc # NoExc THEN "crashed" ELSE AfterEvents(Tail(eventq))
              /\ event' = Processed(Head(eventq), Head(eventq).name \notin sysfs)
    /\ eventq' = Tail(eventq)
    /\ deleted' = deleted \ {Head(eventq).name}
    /\ last' = NoPacket
    /\ UNCHANGED rlist

\* serve(), lines 505-506: process_pending() of the next ready queue receives one
\* packet and hands it to the queue's callback.  The binding prints an exception of the
\* callback and goes on, so the call ends at "returned" either way.
Dispatch(handled) ==
    /\ last' = handled
    /\ pc' = "returned"
    /\ event' = NoEvent
    /\ UNCHANGED <<clients, subnets, ifaces, v6nets, eventq, rlist, deleted>>

DhcpResponse ==
    /\ pc = "packets" /\ rlist # << >> /\ Head(rlist) = "dhcp_response"
    /\ \E indev \in Indevs, pkt \in DhcpPackets, sysfs \in HandlerSysfs :
          Dispatch(Handled("dhcp_response", indev, pkt,
                           dhcp_response(StoreNow, indev, pkt, sysfs)))

RsResponse ==
    /\ pc = "packets" /\ rlist # << >> /\ Head(rlist) = "rs_response"
    /\ \E indev \in Indevs, sysfs \in HandlerSysfs :
          Dispatch(Handled("rs_response", indev, << >>,
                           rs_response(StoreNow, indev, sysfs)))

NsResponse ==
    /\ pc = "packets" /\ rlist # << >> /\ Head(rlist) = "ns_response"
    /\ \E indev \in Indevs, ns \in NsPackets, sysfs \in HandlerSysfs :
          Dispatch(Handled("ns_response", indev, ns,
                           ns_response(StoreNow, indev, ns, sysfs)))

\* process_pending() after a callback: the queue holds another packet (more), or it
\* is drained and serve() turns to the next ready descriptor, or back to select()
ProcessPending ==
    /\ pc = "returned"
    /\ \E more \in BOOLEAN :
          /\ rlist' = IF more THEN rlist ELSE Tail(rlist)
          /\ pc' = IF ~more /\ Tail(rlist) = << >> THEN "select" ELSE "packets"
    /\ last' = NoPacket
    /\ event' = NoEvent
    /\ UNCHANGED <<clients, subnets, ifaces, v6nets, eventq, deleted>>

Next ==
    \/ BuildConfig
    \/ Select
    \/ ProcessDelete
    \/ ProcessCloseWrite
    \/ DhcpResponse
    \/ RsResponse
    \/ NsResponse
    \/ ProcessPending

Spec == Init /\ [][Next]_vars

-----------------------------------------------------------------------------
(* Vocabulary of the properties: the request just handled and its reply *)

IsDhcp == last.handler = "dhcp_response"

\* the host interface a packet with this input device was captured on
CapturedOn(indev) == {x \in HostIfaces : SysIfindex[x] = indev}

\* the registered MACs whose octets are the request's chaddr[:hlen]
RequestMacs ==
    {m \in DOMAIN clients :
        /\ Len(m) = last.pkt.hlen
        /\ \A i \in 1..Len(m) : Int16(m[i]) = last.pkt.chaddr[i]}

\* the request is a BOOTP request of a registered Client, captured on the interface the
\* Client is pinned to
RegisteredPinned ==
    /\ IsDhcp
    /\ last.pkt.bootp
    /\ \E m \in RequestMacs : \E x \in CapturedOn(last.indev) : clients[m].iface = Some(x)

RequestClient == clients[CHOOSE m \in RequestMacs : TRUE]

\* the values of the options of that name, in a list of options
OptionValues(options, name) ==
    {options[i][2] : i \in {j \in 1..Len(options) : Len(options[j]) = 2 /\ options[j][1] = name}}

\* the request has this DHCP message type
RequestIs(t) == last.pkt.dhcp /\ OptionValues(last.pkt.options, "message-type") = {t}

Reply == last.sent[1]
ReplyIs(t) == OptionValues(Reply.options, "message-type") = {t}
OneReply(t) == Len(last.sent) = 1 /\ ReplyIs(t)
NoReply == last.sent = << >>

-----------------------------------------------------------------------------
(* C1 .. C10 *)

\* C1: every captured packet handed to dhcp_response, rs_response or ns_response gets
\* exactly one verdict before the handler returns or aborts.
C1_ExactlyOneVerdict ==
    last.handler # "" => Len(last.verdicts) = 1

\* C2: once a delete event for X has been processed and X has not been written again,
\* the store holds no Client of X to answer from (a request from its MAC is an invalid
\* client) and no DHCP reply goes out for a Client of X.
C2_NoReplyAfterDelete ==
    \A x \in deleted :
        /\ \A m \in DOMAIN clients : clients[m].iface # Some(x)
        /\ IsDhcp /\ ~NoReply => Reply.iface # x

\* C3: a DHCP reply is emitted only for a registered Client pinned to the capture
\* interface; a request of an unknown MAC or on another interface gets no reply and is
\* dropped.
C3_ReplyOnlyToPinnedClient ==
    IsDhcp /\ last.pkt.bootp =>
        /\ ~NoReply => RegisteredPinned
        /\ ~RegisteredPinned => NoReply /\ last.verdicts = <<NF_DROP>>

\* The first half of C3 alone: no reply without a registered, pinned Client.
ReplyOnlyIfPinned ==
    IsDhcp /\ ~NoReply => RegisteredPinned

\* C4: the serve loop never returns: no event or packet puts the server in a
\* terminated state.
C4_ServeNeverReturns ==
    pc # "crashed"

\* C5: a REQUEST of a registered, non-spoofed Client whose requested_addr option is not
\* the Client's ip is answered by exactly one reply, a NAK without hostname, router,
\* netmask, broadcast, renewal or lease option and with yiaddr as the request had it;
\* a REQUEST without requested_addr option is never answered by a NAK.
C5_WrongAddressNak ==
    RegisteredPinned /\ RequestIs(DHCPREQUEST) /\ HasIp(RequestClient) =>
        LET asked == OptionValues(last.pkt.options, "requested_addr")
        IN  /\ (asked # {} /\ ip(RequestClient) \notin asked) =>
                /\ OneReply(DHCPNAK)
                /\ \A name \in {"hostname", "domain", "router", "subnet_mask",
                                "broadcast_address", "renewal_time", "lease_time"} :
                       OptionValues(Reply.options, name) = {}
                /\ Reply.bootp.yiaddr = last.pkt.yiaddr
            /\ asked = {} => (NoReply \/ ~ReplyIs(DHCPNAK))

C5_Witness ==
    /\ RegisteredPinned /\ RequestIs(DHCPREQUEST)
    /\ OptionValues(last.pkt.options, "requested_addr") = {IP3}
    /\ Val(RequestClient.ips) = <<IP2, IP3>>
    /\ OneReply(DHCPNAK)

\* C6: for a registered, non-spoofed Client, DISCOVER yields exactly one OFFER, REQUEST
\* for the Client's ip exactly one ACK, INFORM exactly one ACK, RELEASE no reply.
C6_ReplyTable ==
    RegisteredPinned =>
        /\ RequestIs(DHCPDISCOVER) => OneReply(DHCPOFFER)
        /\ (/\ RequestIs(DHCPREQUEST)
            /\ HasIp(RequestClient)
            /\ OptionValues(last.pkt.options, "requested_addr") \subseteq {ip(RequestClient)})
              => OneReply(DHCPACK)
        /\ RequestIs(DHCPINFORM) => OneReply(DHCPACK)
        /\ RequestIs(DHCPRELEASE) => NoReply

\* the reply type the request calls for: NAK for a REQUEST of another address, else
\* the entry of the request/response table
ChosenType ==
    IF /\ RequestIs(DHCPREQUEST)
       /\ OptionValues(last.pkt.options, "requested_addr") \ {ip(RequestClient)} # {}
    THEN DHCPNAK
    ELSE IF RequestIs(DHCPDISCOVER) THEN DHCPOFFER ELSE DHCPACK

\* C7: every DHCP reply carries server_id = 1.2.3.4, its message-type is the reply type
\* chosen for the request, and the end marker is the last of its options.
C7_EveryReplyIsTerminated ==
    IsDhcp =>
        \A i \in 1..Len(last.sent) :
            LET options == last.sent[i].options
            IN  /\ OptionValues(options, "server_id") = {<<1, 2, 3, 4>>}
                /\ OptionValues(options, "message-type") = {ChosenType}
                /\ options[Len(options)] = <<"end">>

C7_Witness ==
    IsDhcp /\ RequestIs(DHCPINFORM) /\ OneReply(DHCPACK)
    /\ Reply.options[Len(Reply.options)] = <<"end">>

\* C8: in every OFFER and every ACK to a REQUEST, yiaddr is the first address of the
\* Client registered for the request's MAC, and so is the reply's IP destination.
C8_YiaddrIsClientIp ==
    (/\ IsDhcp /\ ~NoReply
     /\ (ReplyIs(DHCPOFFER) \/ (ReplyIs(DHCPACK) /\ RequestIs(DHCPREQUEST)))) =>
        /\ RequestMacs # {}
        /\ Reply.bootp.yiaddr = Val(RequestClient.ips)[1]
        /\ Reply.l3.dst = Val(RequestClient.ips)[1]

C8_Witness ==
    /\ IsDhcp /\ RequestIs(DHCPDISCOVER) /\ OneReply(DHCPOFFER)
    /\ Val(RequestClient.ips) = <<IP2, IP3>>
    /\ Reply.bootp.yiaddr = IP2

\* C9: for a Neighbor Solicitation on an interface with an IPv6 subnet entry, a Neighbor
\* Advertisement is sent (verdict DROP) iff the target lies in the interface's connected
\* prefix or is its link-local EUI-64 address; otherwise the verdict is ACCEPT and
\* nothing is sent.
C9_AdvertiseIffRoutable ==
    (/\ last.handler = "ns_response"
     /\ last.indev \in DOMAIN ifaces
     /\ ifaces[last.indev] \in DOMAIN v6nets) =>
        LET iface == ifaces[last.indev]
            subnet == v6nets[iface]
            routable == \/ subnet.net # None /\ overlaps(Val(subnet.net), last.pkt.tgt)
                        \/ last.pkt.tgt = make_ll64(SysAddress[iface])
        IN  IF routable
            THEN /\ last.verdicts = <<NF_DROP>>
                 /\ Len(last.sent) = 1
                 /\ last.sent[1].na.tgt = last.pkt.tgt
            ELSE /\ last.verdicts = <<NF_ACCEPT>>
                 /\ last.sent = << >>

\* C10: every installed Client has a MAC, a non-empty IP list and a hostname, and was
\* installed while its interface's ifindex was readable (which a running server records
\* in the ifindex map).
C10_InstalledClientsComplete ==
    \A m \in DOMAIN clients :
        LET c == clients[m]
        IN  /\ c.mac # None
            /\ c.ips # None /\ Val(c.ips) # << >>
            /\ c.hostname # None
            /\ pc # "crashed" =>
                  \E x \in HostIfaces : c.iface = Some(x) /\ SysIfindex[x] \in DOMAIN ifaces

-----------------------------------------------------------------------------
(* Vocabulary of the properties: the event just processed *)

JustDeleted == event.mask = "IN_DELETE"
JustWrittenStale == event.mask = "IN_CLOSE_WRITE" /\ event.stale

\* the Clients of a client map that are pinned to the interface
ClientsOf(cl, iface) == {m \in DOMAIN cl : cl[m].iface = Some(iface)}

-----------------------------------------------------------------------------
(* C11 .. C20 *)

-----------------------------------------------------------------------------
(* Subnet.make_ll64 on its own: every hardware address of a set is handed to it *)

\* the octets of the hardware addresses tried
MacOctets ==
    {0, 2, 82, 170, 254, 255} \X {84, 0} \X {0, 255} \X {18, 254} \X {52, 171} \X {86, 1}

\* the text of <sysfs>/<iface>/address for these octets: six two-digit components
MacOf(octets) == [i \in 1..Len(octets) |-> Hex2(octets[i])]

\* the part of the state the main loop owns, untouched by a function called on its own
Idle ==
    /\ clients = EmptyDict /\ subnets = EmptyDict /\ ifaces = EmptyDict
    /\ v6nets = EmptyDict /\ eventq = << >> /\ rlist = << >> /\ deleted = {}
    /\ event = NoEvent

InitLL64 ==
    /\ Idle
    /\ pc = "call"
    /\ \E octets \in MacOctets : last = [octets |-> octets, ll64 |-> None]

MakeLL64 ==
    /\ pc = "call"
    /\ last' = [last EXCEPT !.ll64 = Some(make_ll64(MacOf(last.octets)))]
    /\ pc' = "done"
    /\ UNCHANGED <<clients, subnets, ifaces, v6nets, eventq, rlist, deleted, event>>

NextLL64 == MakeLL64

SpecLL64 == InitLL64 /\ [][NextLL64]_vars

\* C12: for every 6-octet hardware address, make_ll64 returns the address whose upper
\* 64 bits are fe80:0:0:0 and whose lower 64 bits are the first three octets, ff fe,
\* the last three octets, with bit 0x02 of the first octet inverted.
C12_LinkLocalEui64 ==
    pc = "done" =>
        LET o == last.octets
            flipped == IF (o[1] \div 2) % 2 = 1 THEN o[1] - 2 ELSE o[1] + 2
        IN  Val(last.ll64) =
                <<65152, 0, 0, 0,
                  256 * flipped + o[2], 256 * o[3] + 255, 256 * 254 + o[4], 256 * o[5] + o[6]>>

C12_Witness ==
    /\ pc = "done"
    /\ last.octets = <<82, 84, 0, 18, 52, 86>>
    /\ Val(last.ll64) = <<65152, 0, 0, 0, 20564, 255, 65042, 13398>>

-----------------------------------------------------------------------------
(* The reconciler's postconditions *)

\* C13: after a delete event named X the IPv6-subnet map has no key X, the client map no
\* Client pinned to X and the ifindex map no entry with value X, while the entries of
\* every other interface are as the event found them.
C13_RemoveIfacePostcondition ==
    JustDeleted =>
        LET x == event.name
            b == event.before
        IN  /\ x \notin DOMAIN v6nets
            /\ ClientsOf(clients, x) = {}
            /\ \A i \in DOMAIN ifaces : ifaces[i] # x
            /\ DOMAIN v6nets \ {x} = DOMAIN b.v6nets \ {x}
            /\ \A y \in DOMAIN v6nets \ {x} : v6nets[y] = b.v6nets[y]
            /\ DOMAIN clients \ ClientsOf(clients, x) = DOMAIN b.clients \ ClientsOf(b.clients, x)
            /\ \A m \in DOMAIN clients \ ClientsOf(clients, x) : clients[m] = b.clients[m]
            /\ {i \in DOMAIN ifaces : ifaces[i] # x} = {i \in DOMAIN b.ifaces : b.ifaces[i] # x}
            /\ \A i \in DOMAIN ifaces : ifaces[i] # x => ifaces[i] = b.ifaces[i]

\* C14: when a write-close of file X finds interface X without a readable ifindex, the
\* store afterwards holds no Client pinned to X.  (The initial scan starts from a cleared
\* client map and reads one sysfs, so it never leaves a Client of an absent interface.)
C14_StaleIfaceEvicted ==
    JustWrittenStale => ClientsOf(clients, event.name) = {}

\* C15: a write-close whose interface has no readable ifindex leaves the client map,
\* the ifindex map and both subnet maps exactly as it found them.
C15_StaleWriteInstallsNothing ==
    JustWrittenStale =>
        /\ clients = event.before.clients
        /\ ifaces = event.before.ifaces
        /\ subnets = event.before.subnets
        /\ v6nets = event.before.v6nets

C15_Witness ==
    /\ JustWrittenStale
    /\ ClientsOf(clients, event.name) # {}
    /\ pc # "crashed"

-----------------------------------------------------------------------------
(* The DHCP responder again *)

\* C16: a DHCP packet of a registered, non-spoofed Client whose message-type is none of
\* DISCOVER, REQUEST, INFORM, RELEASE, or that has no message-type option, is dropped,
\* gets no reply, and the responder returns without raising.
C16_UnknownTypeReturnsNormally ==
    (/\ RegisteredPinned
     /\ HasIp(RequestClient)
     /\ last.pkt.dhcp
     /\ OptionValues(last.pkt.options, "message-type")
            \cap {DHCPDISCOVER, DHCPREQUEST, DHCPINFORM, DHCPRELEASE} = {}) =>
        /\ last.verdicts = <<NF_DROP>>
        /\ NoReply
        /\ last.exc = NoExc

\* C17: every verdict dhcp_response issues is DROP, and whenever it sends a reply frame
\* the verdict has been issued before the frame is sent.
C17_DropBeforeSend ==
    IsDhcp =>
        /\ \A i \in 1..Len(last.verdicts) : last.verdicts[i] = NF_DROP
        /\ \A j \in 1..Len(last.effects) :
               last.effects[j] = "sendp" =>
                   \E i \in 1..(j - 1) : last.effects[i] = "set_verdict"

C17_Witness ==
    /\ IsDhcp
    /\ RequestIs(DHCPREQUEST) /\ OneReply(DHCPACK)
    /\ last.verdicts = <<NF_DROP>>
    /\ last.effects = <<"set_verdict", "sendp">>

-----------------------------------------------------------------------------
(* parse_routing_table on its own: every short list of route lines, in every order *)

RouteLines ==
    { RouteLine("default", Some(<<10, 0, 0, 1>>), Some("eth0")),
      RouteLine("default", Some(<<10, 0, 0, 254>>), Some("eth1")),
      RouteLine("default", None, Some("eth0")),                  \* default dev eth0
      RouteLine("10.0.0.0/16", None, Some("eth0")),
      RouteLine("10.0.0.0/24", None, Some("eth0")),
      RouteLine("10.0.1.0/24", None, Some("eth01")),
      RouteLine("192.168.0.0/24", None, Some("eth1")),
      RouteLine("192.168.0.0/24", Some(<<10, 0, 0, 2>>), Some("eth0")) }

RouteTables ==
    {rs \in SeqsUpTo(RouteLines, MaxRoutes) :
        \A i, j \in 1..Len(rs) : rs[i] = rs[j] => i = j}

InitRoutes ==
    /\ Idle
    /\ pc = "call"
    /\ \E routes \in RouteTables : last = [routes |-> routes, result |-> None]

ParseRoutes ==
    /\ pc = "call"
    /\ last' = [last EXCEPT !.result = Some(parse_routes(last.routes))]
    /\ pc' = "done"
    /\ UNCHANGED <<clients, subnets, ifaces, v6nets, eventq, rlist, deleted, event>>

NextRoutes == ParseRoutes

SpecRoutes == InitRoutes /\ [][NextRoutes]_vars

\* C18: for any list of route lines parse_routing_table raises nothing; gateway and
\* device are those of the first default line (unset without one); the prefix is a
\* least-specific connected route among those whose device is exactly the default
\* device (unset when there is none).
C18_LeastSpecificConnectedRoute ==
    pc = "done" =>
        LET routes == last.routes
            result == Val(last.result)
            defaults == {i \in 1..Len(routes) :
                            /\ routes[i].dst = "default"
                            /\ routes[i].via # None /\ routes[i].dev # None}
            connected == {i \in 1..Len(routes) :
                            /\ defaults # {}
                            /\ routes[i].via = None
                            /\ routes[i].dst # "default"
                            /\ \A d \in defaults :
                                   (\A e \in defaults : d <= e) => routes[i].dev = routes[d].dev}
            widest == {i \in connected :
                          \A j \in connected :
                              Val(IPyIP(routes[i].dst)).prefixlen
                                  <= Val(IPyIP(routes[j].dst)).prefixlen}
        IN  /\ result.exc = NoExc
            /\ \A d \in defaults :
                   (\A e \in defaults : d <= e) =>
                       /\ result.subnet.gw = routes[d].via
                       /\ result.subnet.dev = routes[d].dev
            /\ defaults = {} => result.subnet.gw = None /\ result.subnet.dev = None
            /\ connected = {} => result.subnet.net = None
            /\ connected # {} =>
                   \E i \in widest : result.subnet.net = IPyIP(routes[i].dst)

-----------------------------------------------------------------------------
(* The Router Solicitation responder, and the indexes of the store *)

\* C19: a Router Solicitation captured on an interface that hosts a registered Client
\* gets verdict DROP and exactly one Router Advertisement, sent on that interface, with
\* router lifetime 14400 and exactly one Prefix Information option carrying the prefix
\* and prefix length of the interface's IPv6 subnet entry.
C19_RouterAdvertisement ==
    last.handler = "rs_response" =>
        \A x \in CapturedOn(last.indev) :
            ClientsOf(clients, x) # {} =>
                /\ last.verdicts = <<NF_DROP>>
                /\ Len(last.sent) = 1
                /\ last.sent[1].iface = x
                /\ last.sent[1].ra.routerlifetime = 14400
                /\ Len(last.sent[1].prefixinfo) = 1
                /\ x \in DOMAIN v6nets
                /\ v6nets[x].net # None
                /\ last.sent[1].prefixinfo[1] =
                       [prefix |-> Val(v6nets[x].net).ip,
                        prefixlen |-> Val(v6nets[x].net).prefixlen]

\* the three index entries of one Client
Indexed(c) ==
    /\ \E i \in DOMAIN ifaces : Some(ifaces[i]) = c.iface
    /\ c.link # None /\ Val(c.link) \in DOMAIN subnets
    /\ c.iface # None /\ Val(c.iface) \in DOMAIN v6nets

\* C20: in every state the initial scan, write-close and delete events can reach, every
\* Client of the client map has an ifindex entry whose value is its iface, an IPv4
\* subnet entry keyed by its link and an IPv6 subnet entry keyed by its iface; binding
\* files without a LINK line included.
C20_IndexConsistency ==
    \A m \in DOMAIN clients : Indexed(clients[m])

\* C20 in the states where serve() is still running
IndexConsistencyWhileServing ==
    pc # "crashed" => \A m \in DOMAIN clients : Indexed(clients[m])

\* C21: no two Clients of the client map are pinned to the same interface; after a
\* binding file is rewritten with another MAC, the Client of the old MAC is gone from
\* the client map.
C21_OneClientPerIface ==
    \A m1, m2 \in DOMAIN clients :
        (clients[m1].iface # None /\ clients[m1].iface = clients[m2].iface) => m1 = m2

====
